---------------------------- MODULE Spec2Model ----------------------------
(***************************************************************************)
(* A model of the APRS bulletin board of aprs_bbs.py (class APRSBBS): the  *)
(* receive path _receive_loop -> _handle_packet -> _process_command and    *)
(* the four stores it mutates (mailboxes, chat_groups, next_seq,           *)
(* pending_acks), together with _send_message.                             *)
(*                                                                         *)
(* Text is modelled as a tuple of one-character strings, so that parsing   *)
(* (split, strip, upper, lower, isdigit, slicing) is computed as the code  *)
(* computes it.  The literal parts of the replies the code formats with    *)
(* f-strings are kept as single multi-character elements of the tuple.     *)
(* Characters are ASCII.  A write on an open socket file is taken to       *)
(* succeed.  One step handles one line: the receive thread is the only     *)
(* caller of _handle_packet, and close() takes effect between two lines.   *)
(* The order in which a set of group members is iterated is not fixed by   *)
(* the language, so every order is a possible step.                        *)
(* Where the beacon thread runs beside the receive thread, the handler of  *)
(* a line that loops over a mailbox or over the members of a group is      *)
(* taken one call of _send_message at a time.  Two variables keep the      *)
(* history of the deposits asked for and of the deliveries written.        *)
(***************************************************************************)
EXTENDS Integers, Sequences, FiniteSets, TLC

VARIABLES
    mailboxes,      \* self.mailboxes: callsign -> list of (from_call, message)
    chat_groups,    \* self.chat_groups: group name -> set of callsigns
    next_seq,       \* self.next_seq: to_call -> next sequence number
    pending_acks,   \* self.pending_acks: (callsign, seq_str) -> message
    sock_file,      \* self._sock_file is set (the socket file exists)
    running,        \* self._running
    packet,         \* the line the receive loop read last
    out,            \* what _send_message wrote while that line was handled
    issued,         \* station -> number of the tag attached last to a message for it
    deposited,      \* recipient -> the (sender, text) the lines read asked to deposit
    delivered,      \* station -> the texts of the delivery messages written to it
    handling,       \* what is left to do of the handler in progress (<<>>: none)
    objects         \* the number of object packets send_object has written

vars == <<mailboxes, chat_groups, next_seq, pending_acks, sock_file, running,
          packet, out, issued, deposited, delivered, handling, objects>>

-----------------------------------------------------------------------------
(* Characters and strings *)

LowerLetters == <<"a","b","c","d","e","f","g","h","i","j","k","l","m",
                  "n","o","p","q","r","s","t","u","v","w","x","y","z">>
UpperLetters == <<"A","B","C","D","E","F","G","H","I","J","K","L","M",
                  "N","O","P","Q","R","S","T","U","V","W","X","Y","Z">>
DigitChars == <<"0","1","2","3","4","5","6","7","8","9">>
Whitespace == {" ", "\t"}

\* str.isdigit on one character
IsDigit(ch) == \E i \in 1..10 : DigitChars[i] = ch

\* str.upper / str.lower on one character
UpperChar(ch) ==
    IF \E i \in 1..26 : LowerLetters[i] = ch
    THEN UpperLetters[CHOOSE i \in 1..26 : LowerLetters[i] = ch]
    ELSE ch
LowerChar(ch) ==
    IF \E i \in 1..26 : UpperLetters[i] = ch
    THEN LowerLetters[CHOOSE i \in 1..26 : UpperLetters[i] = ch]
    ELSE ch

\* str.upper() / str.lower()
Upper(s) == [i \in 1..Len(s) |-> UpperChar(s[i])]
Lower(s) == [i \in 1..Len(s) |-> LowerChar(s[i])]

\* s[a:b] with 0-based a, b as in Python (0 <= a)
Slice(s, a, b) ==
    LET hi == IF b > Len(s) THEN Len(s) ELSE b
    IN  IF a >= hi THEN <<>> ELSE SubSeq(s, a + 1, hi)

\* s[a:]
From(s, a) == Slice(s, a, Len(s))

\* ch in s
Contains(s, ch) == \E i \in 1..Len(s) : s[i] = ch

\* s.find(ch): 0-based index of the first occurrence (ch occurs in s)
Find(s, ch) == (CHOOSE i \in 1..Len(s) : s[i] = ch /\ \A j \in 1..(i-1) : s[j] # ch) - 1

\* s.split(ch, 1) when ch occurs in s: the parts before and after the first ch
SplitOnce(s, ch) == <<Slice(s, 0, Find(s, ch)), From(s, Find(s, ch) + 1)>>

\* s.startswith(p)
StartsWith(s, p) == Len(s) >= Len(p) /\ SubSeq(s, 1, Len(p)) = p

\* str.strip()
RECURSIVE LStrip(_)
LStrip(s) == IF s # <<>> /\ Head(s) \in Whitespace THEN LStrip(Tail(s)) ELSE s
RECURSIVE RStrip(_)
RStrip(s) ==
    IF s # <<>> /\ s[Len(s)] \in Whitespace THEN RStrip(SubSeq(s, 1, Len(s) - 1)) ELSE s
Strip(s) == RStrip(LStrip(s))

\* str.split(): the maximal runs of non-whitespace characters
RECURSIVE SplitWs(_, _, _)
SplitWs(s, cur, acc) ==
    IF s = <<>> THEN (IF cur = <<>> THEN acc ELSE Append(acc, cur))
    ELSE IF Head(s) \in Whitespace
         THEN SplitWs(Tail(s), <<>>, IF cur = <<>> THEN acc ELSE Append(acc, cur))
         ELSE SplitWs(Tail(s), Append(cur, Head(s)), acc)
Split(s) == SplitWs(s, <<>>, <<>>)

\* ' '.join(parts)
RECURSIVE Join(_)
Join(parts) ==
    IF parts = <<>> THEN <<>>
    ELSE IF Len(parts) = 1 THEN parts[1]
    ELSE parts[1] \o <<" ">> \o Join(Tail(parts))

\* s.ljust(9)[:9]
RECURSIVE Ljust(_, _)
Ljust(s, n) == IF Len(s) >= n THEN s ELSE Ljust(Append(s, " "), n)
AddresseeWidth == 9
Ljust9(s) == Slice(Ljust(s, AddresseeWidth), 0, AddresseeWidth)

\* the leading digits of s, at most 5 (the loops at 308-315, 329-336, 347-354)
MaxSeqDigits == 5
RECURSIVE LeadingDigits(_, _)
LeadingDigits(s, digits) ==
    IF s = <<>> THEN digits
    ELSE IF IsDigit(Head(s))
         THEN IF Len(digits) + 1 >= MaxSeqDigits
              THEN Append(digits, Head(s))
              ELSE LeadingDigits(Tail(s), Append(digits, Head(s)))
         ELSE digits

\* f"{seq_num:02d}"
RECURSIVE Decimal(_)
Decimal(n) == IF n < 10 THEN <<DigitChars[n + 1]>>
              ELSE Append(Decimal(n \div 10), DigitChars[(n % 10) + 1])
Format02d(n) == IF n < 10 THEN <<"0">> \o Decimal(n) ELSE Decimal(n)

-----------------------------------------------------------------------------
(* Dictionaries *)

\* d[k] = v
Put(d, k, v) == [x \in (DOMAIN d) \cup {k} |-> IF x = k THEN v ELSE d[x]]

\* d.pop(k, None) / del d[k]
Remove(d, k) == [x \in (DOMAIN d) \ {k} |-> d[x]]

\* d.setdefault(k, v)
SetDefault(d, k, v) == IF k \in DOMAIN d THEN d ELSE Put(d, k, v)

-----------------------------------------------------------------------------
(* Sending *)

\* the wrap of the per-recipient sequence number: (seq_num % 99) + 1
SeqModulus == 99
NextSeqNum(seq_num) == (seq_num % SeqModulus) + 1

\* self.next_seq.get(to_call, 1)
FirstSeqNum == 1
CurrentSeqNum(seqs, to_call) ==
    IF to_call \in DOMAIN seqs THEN seqs[to_call] ELSE FirstSeqNum

\* the key of pending_acks for a message to to_call under seq_str
PendingKey(to_call, seq_str) == <<Upper(to_call), seq_str>>

\* what one call of _send_message writes: the addressee field, the message
\* text and the sequence number appended after "{" (<<>>: none appended)
Sent(to_call, message, seq_str) ==
    [to |-> to_call, addressee |-> Ljust9(Upper(to_call)),
     body |-> message, tag |-> seq_str]

\* payload = f":{addressee}:{message}" with message = f"{message}{{{seq_str}"
Payload(m) ==
    <<":">> \o m.addressee \o <<":">> \o m.body
        \o (IF m.tag = <<>> THEN <<>> ELSE <<"{">> \o m.tag)

\* _send_message(to_call, message, expect_ack=expect_ack) on the stores st
SendMessageAck(st, to_call, message, expect_ack) ==
    IF ~sock_file THEN st
    ELSE IF expect_ack
         THEN LET seq_num == CurrentSeqNum(st.next_seq, to_call)
                  seq_str == Format02d(seq_num)
              IN  [st EXCEPT
                     !.next_seq = Put(@, to_call, NextSeqNum(seq_num)),
                     !.pending_acks = Put(@, PendingKey(to_call, seq_str), message),
                     !.out = Append(@, Sent(to_call, message, seq_str))]
         ELSE [st EXCEPT !.out = Append(@, Sent(to_call, message, <<>>))]

\* the default of the keyword parameter expect_ack
ExpectAckDefault == TRUE

\* _send_message(to_call, message)
SendMessage(st, to_call, message) ==
    SendMessageAck(st, to_call, message, ExpectAckDefault)

-----------------------------------------------------------------------------
(* Private messaging *)

StoredText(to_call) == <<"Stored message for ">> \o to_call \o <<".">>
DeliveryText(from_call, message) == <<"From ">> \o from_call \o <<": ">> \o message
NoNewMessages == <<"No new messages.">>

\* a deposit at the head of the mailbox
StorePrivateMessageAtHead(st, from_call, to_call, message) ==
    LET boxes == SetDefault(st.mailboxes, to_call, <<>>)
        st1 == [st EXCEPT !.mailboxes =
                   Put(boxes, to_call, <<<<from_call, message>>>> \o boxes[to_call])]
    IN  SendMessage(st1, from_call, StoredText(to_call))

\* _store_private_message
StorePrivateMessage(st, from_call, to_call, message) ==
    LET boxes == SetDefault(st.mailboxes, to_call, <<>>)
        st1 == [st EXCEPT !.mailboxes =
                   Put(boxes, to_call, Append(boxes[to_call], <<from_call, message>>))]
    IN  SendMessage(st1, from_call, StoredText(to_call))

\* the loop of _handle_login over the inbox
RECURSIVE Deliver(_, _, _)
Deliver(st, callsign, inbox) ==
    IF inbox = <<>> THEN st
    ELSE Deliver(SendMessageAck(st, callsign,
                                DeliveryText(Head(inbox)[1], Head(inbox)[2]), TRUE),
                 callsign, Tail(inbox))

\* a login that delivers the newest entry first
RECURSIVE DeliverNewestFirst(_, _, _)
DeliverNewestFirst(st, callsign, inbox) ==
    IF inbox = <<>> THEN st
    ELSE DeliverNewestFirst(
             SendMessageAck(st, callsign,
                            DeliveryText(inbox[Len(inbox)][1], inbox[Len(inbox)][2]), TRUE),
             callsign, SubSeq(inbox, 1, Len(inbox) - 1))

HandleLoginNewestFirst(st, callsign) ==
    LET st1 == [st EXCEPT !.mailboxes = SetDefault(@, callsign, <<>>)]
        inbox == st1.mailboxes[callsign]
    IN  IF inbox # <<>>
        THEN [DeliverNewestFirst(st1, callsign, inbox) EXCEPT !.mailboxes[callsign] = <<>>]
        ELSE SendMessage(st1, callsign, NoNewMessages)

\* a login that takes the mailbox out of the store
HandleLoginForgetsBox(st, callsign) ==
    LET inbox == IF callsign \in DOMAIN st.mailboxes
                 THEN st.mailboxes[callsign] ELSE <<>>
        st1 == [st EXCEPT !.mailboxes = Remove(@, callsign)]
    IN  IF inbox # <<>>
        THEN Deliver(st1, callsign, inbox)
        ELSE SendMessage(st1, callsign, NoNewMessages)

\* a login that empties every mailbox
HandleLoginClearsAll(st, callsign) ==
    LET st1 == [st EXCEPT !.mailboxes = SetDefault(@, callsign, <<>>)]
        inbox == st1.mailboxes[callsign]
    IN  IF inbox # <<>>
        THEN [Deliver(st1, callsign, inbox) EXCEPT
                 !.mailboxes = [s \in DOMAIN @ |-> <<>>]]
        ELSE SendMessage(st1, callsign, NoNewMessages)

\* a login that delivers the mailbox and keeps its entries
HandleLoginKeepsBox(st, callsign) ==
    LET st1 == [st EXCEPT !.mailboxes = SetDefault(@, callsign, <<>>)]
        inbox == st1.mailboxes[callsign]
    IN  IF inbox # <<>>
        THEN Deliver(st1, callsign, inbox)
        ELSE SendMessage(st1, callsign, NoNewMessages)

\* _handle_login
HandleLogin(st, callsign) ==
    LET st1 == [st EXCEPT !.mailboxes = SetDefault(@, callsign, <<>>)]
        inbox == st1.mailboxes[callsign]
    IN  IF inbox # <<>>
        THEN [Deliver(st1, callsign, inbox) EXCEPT !.mailboxes[callsign] = <<>>]
        ELSE SendMessage(st1, callsign, NoNewMessages)

\* help_lines of _handle_help (the dash of the source is written "-")
HelpLines == <<
    <<"Available commands:">>,
    <<"login                        - Register and check for new mail">>,
    <<"msg CALLSIGN MESSAGE         - Send a private message">>,
    <<"group create NAME            - Create a new chat group and join it">>,
    <<"group join NAME              - Join an existing chat group">>,
    <<"group leave NAME             - Leave a chat group">>,
    <<"group msg NAME MESSAGE       - Send a message to all group members">>,
    <<"help                         - Show this help message">> >>

RECURSIVE SendLines(_, _, _)
SendLines(st, callsign, lines) ==
    IF lines = <<>> THEN st
    ELSE SendLines(SendMessage(st, callsign, Head(lines)), callsign, Tail(lines))

\* _handle_help
HandleHelp(st, callsign) == SendLines(st, callsign, HelpLines)

-----------------------------------------------------------------------------
(* Chat groups *)

Quoted(group_name) == <<"'">> \o group_name \o <<"'">>
AlreadyExistsText(g) == <<"Group ">> \o Quoted(g) \o <<" already exists.">>
CreatedText(g) == <<"Group ">> \o Quoted(g) \o <<" created and you have joined.">>
NotExistText(g) == <<"Group ">> \o Quoted(g) \o <<" does not exist.">>
AlreadyMemberText(g) == <<"You are already a member of ">> \o Quoted(g) \o <<".">>
JoinedText(g) == <<"Joined group ">> \o Quoted(g) \o <<".">>
NotMemberText(g) == <<"You are not a member of ">> \o Quoted(g) \o <<".">>
LeftText(g) == <<"Left group ">> \o Quoted(g) \o <<".">>
SentToGroupText(g) == <<"Sent to group ">> \o Quoted(g) \o <<".">>
GroupCopyText(g, caller, message) ==
    <<"[">> \o g \o <<"] ">> \o caller \o <<": ">> \o message

\* self.chat_groups.get(group_name) is None or an empty set
NoMembers(groups, group_name) ==
    group_name \notin DOMAIN groups \/ groups[group_name] = {}

\* a create that adds the caller to a group that exists already
CreateGroupJoinsExisting(st, caller, group_name) ==
    IF group_name \in DOMAIN st.chat_groups
    THEN SendMessage([st EXCEPT !.chat_groups[group_name] = @ \cup {caller}],
                     caller, AlreadyExistsText(group_name))
    ELSE SendMessage([st EXCEPT !.chat_groups = Put(@, group_name, {caller})],
                     caller, CreatedText(group_name))

\* _create_group
CreateGroup(st, caller, group_name) ==
    IF group_name \in DOMAIN st.chat_groups
    THEN SendMessage(st, caller, AlreadyExistsText(group_name))
    ELSE SendMessage([st EXCEPT !.chat_groups = Put(@, group_name, {caller})],
                     caller, CreatedText(group_name))

\* a join that makes the group when it does not exist
JoinGroupMakesGroup(st, caller, group_name) ==
    IF NoMembers(st.chat_groups, group_name)
    THEN SendMessage([st EXCEPT !.chat_groups = Put(@, group_name, {caller})],
                     caller, JoinedText(group_name))
    ELSE IF caller \in st.chat_groups[group_name]
    THEN SendMessage(st, caller, AlreadyMemberText(group_name))
    ELSE SendMessage([st EXCEPT !.chat_groups[group_name] = @ \cup {caller}],
                     caller, JoinedText(group_name))

\* _join_group
JoinGroup(st, caller, group_name) ==
    IF NoMembers(st.chat_groups, group_name)
    THEN SendMessage(st, caller, NotExistText(group_name))
    ELSE IF caller \in st.chat_groups[group_name]
    THEN SendMessage(st, caller, AlreadyMemberText(group_name))
    ELSE SendMessage([st EXCEPT !.chat_groups[group_name] = @ \cup {caller}],
                     caller, JoinedText(group_name))

\* a leave that does not ask whether the caller is a member
LeaveGroupOfAnyone(st, caller, group_name) ==
    IF NoMembers(st.chat_groups, group_name)
    THEN SendMessage(st, caller, NotMemberText(group_name))
    ELSE LET st1 == [st EXCEPT !.chat_groups[group_name] = @ \ {caller}]
             st2 == SendMessage(st1, caller, LeftText(group_name))
         IN  IF st2.chat_groups[group_name] = {}
             THEN [st2 EXCEPT !.chat_groups = Remove(@, group_name)]
             ELSE st2

\* a leave that keeps the group record when its last member has left
LeaveGroupKeepsRecord(st, caller, group_name) ==
    IF NoMembers(st.chat_groups, group_name) \/ caller \notin st.chat_groups[group_name]
    THEN SendMessage(st, caller, NotMemberText(group_name))
    ELSE SendMessage([st EXCEPT !.chat_groups[group_name] = @ \ {caller}],
                     caller, LeftText(group_name))

\* _leave_group
LeaveGroup(st, caller, group_name) ==
    IF NoMembers(st.chat_groups, group_name) \/ caller \notin st.chat_groups[group_name]
    THEN SendMessage(st, caller, NotMemberText(group_name))
    ELSE LET st1 == [st EXCEPT !.chat_groups[group_name] = @ \ {caller}]
             st2 == SendMessage(st1, caller, LeftText(group_name))
         IN  IF st2.chat_groups[group_name] = {}
             THEN [st2 EXCEPT !.chat_groups = Remove(@, group_name)]
             ELSE st2

\* the loop of _group_message over the members, visited in the order `order`
RECURSIVE FanOut(_, _, _, _, _)
FanOut(st, caller, group_name, message, order) ==
    IF order = <<>> THEN st
    ELSE FanOut(IF Head(order) # caller
                THEN SendMessageAck(st, Head(order),
                                    GroupCopyText(group_name, caller, message), TRUE)
                ELSE st,
                caller, group_name, message, Tail(order))

\* a fan-out that does not ask whether the caller is a member
GroupMessageFromAnyone(st, caller, group_name, message, order) ==
    IF NoMembers(st.chat_groups, group_name)
    THEN SendMessage(st, caller, NotMemberText(group_name))
    ELSE LET members == st.chat_groups[group_name]
             visit == SelectSeq(order, LAMBDA m : m \in members)
         IN  SendMessage(FanOut(st, caller, group_name, message, visit),
                         caller, SentToGroupText(group_name))

\* _group_message; iteration visits the set of members in the order in which
\* they occur in `order`
GroupMessage(st, caller, group_name, message, order) ==
    IF NoMembers(st.chat_groups, group_name) \/ caller \notin st.chat_groups[group_name]
    THEN SendMessage(st, caller, NotMemberText(group_name))
    ELSE LET members == st.chat_groups[group_name]
             visit == SelectSeq(order, LAMBDA m : m \in members)
         IN  SendMessage(FanOut(st, caller, group_name, message, visit),
                         caller, SentToGroupText(group_name))

-----------------------------------------------------------------------------
(* Command processing *)

LOGIN == <<"l","o","g","i","n">>
HELP == <<"h","e","l","p">>
MSG == <<"m","s","g">>
SEND == <<"s","e","n","d">>
GROUP == <<"g","r","o","u","p">>
CREATE == <<"c","r","e","a","t","e">>
JOIN == <<"j","o","i","n">>
LEAVE == <<"l","e","a","v","e">>
ACK == <<"a","c","k">>
REJ == <<"r","e","j">>

MsgUsage == <<"Usage: msg CALLSIGN message">>
GroupUsage == <<"Usage: group [create|join|leave|msg] <name> [message]">>
UnknownCommand == <<"Unknown command. Send 'help' for a list of commands.">>

\* a group branch that takes the group name as it was written
GroupCommandKeepsCase(st, from_call, parts, order) ==
    LET sub == Lower(parts[2])
    IN  IF sub = CREATE /\ Len(parts) >= 3
        THEN CreateGroup(st, from_call, parts[3])
        ELSE IF sub = JOIN /\ Len(parts) >= 3
        THEN JoinGroup(st, from_call, parts[3])
        ELSE IF sub = LEAVE /\ Len(parts) >= 3
        THEN LeaveGroup(st, from_call, parts[3])
        ELSE IF sub = MSG /\ Len(parts) >= 4
        THEN GroupMessage(st, from_call, parts[3],
                          Join(SubSeq(parts, 4, Len(parts))), order)
        ELSE SendMessage(st, from_call, GroupUsage)

\* the branch `elif cmd == 'group' and len(parts) >= 2`
GroupCommand(st, from_call, parts, order) ==
    LET sub == Lower(parts[2])
    IN  IF sub = CREATE /\ Len(parts) >= 3
        THEN CreateGroup(st, from_call, Lower(parts[3]))
        ELSE IF sub = JOIN /\ Len(parts) >= 3
        THEN JoinGroup(st, from_call, Lower(parts[3]))
        ELSE IF sub = LEAVE /\ Len(parts) >= 3
        THEN LeaveGroup(st, from_call, Lower(parts[3]))
        ELSE IF sub = MSG /\ Len(parts) >= 4
        THEN GroupMessage(st, from_call, Lower(parts[3]),
                          Join(SubSeq(parts, 4, Len(parts))), order)
        ELSE SendMessage(st, from_call, GroupUsage)

\* _process_command
ProcessCommand(st, from_call, text, order) ==
    LET parts == Split(Strip(text))
        cmd == Lower(parts[1])
    IN  IF text = <<>> \/ parts = <<>> THEN st
        ELSE IF cmd = LOGIN THEN HandleLogin(st, from_call)
        ELSE IF cmd = HELP THEN HandleHelp(st, from_call)
        ELSE IF cmd \in {MSG, SEND}
        THEN IF Len(parts) < 3
             THEN SendMessage(st, from_call, MsgUsage)
             ELSE StorePrivateMessage(st, from_call, Upper(parts[2]),
                                      Join(SubSeq(parts, 3, Len(parts))))
        ELSE IF cmd = GROUP /\ Len(parts) >= 2
        THEN GroupCommand(st, from_call, parts, order)
        ELSE SendMessage(st, from_call, UnknownCommand)

-----------------------------------------------------------------------------
(* Receiving and parsing *)

\* the length the payload must have: ":" + 9 characters + ":"
MinDataLen == 11

\* a parse that does not ask for the ":" behind the addressee field
ParsePacketAnyDelimiter(line) ==
    LET bad == [ok |-> FALSE, src |-> <<>>, dest_field |-> <<>>,
                message_text |-> <<>>, seq_num |-> <<>>]
    IN  IF ~Contains(line, ":") THEN bad
        ELSE LET header == SplitOnce(line, ":")[1]
                 data == SplitOnce(line, ":")[2]
             IN  IF ~Contains(header, ">") THEN bad
                 ELSE IF ~StartsWith(data, <<":">>) THEN bad
                 ELSE IF Len(data) < MinDataLen THEN bad
                 ELSE LET src == SplitOnce(header, ">")[1]
                          dest_field == Upper(Strip(Slice(data, 1, 10)))
                          message_text == From(From(data, 10), 1)
                          tagged == Contains(message_text, "{")
                          seq_part == SplitOnce(message_text, "{")[2]
                      IN  [ok |-> TRUE, src |-> src, dest_field |-> dest_field,
                           message_text |-> IF tagged
                                            THEN SplitOnce(message_text, "{")[1]
                                            ELSE message_text,
                           seq_num |-> IF tagged THEN LeadingDigits(seq_part, <<>>)
                                       ELSE <<>>]

\* lines 278-318 of _handle_packet: the fields of the line, or ok = FALSE
\* where the code returns before it has them
ParsePacket(line) ==
    LET bad == [ok |-> FALSE, src |-> <<>>, dest_field |-> <<>>,
                message_text |-> <<>>, seq_num |-> <<>>]
    IN  IF ~Contains(line, ":") THEN bad
        ELSE LET header == SplitOnce(line, ":")[1]
                 data == SplitOnce(line, ":")[2]
             IN  IF ~Contains(header, ">") THEN bad
                 ELSE IF ~StartsWith(data, <<":">>) THEN bad
                 ELSE IF Len(data) < MinDataLen THEN bad
                 ELSE IF ~StartsWith(From(data, 10), <<":">>) THEN bad
                 ELSE LET src == SplitOnce(header, ">")[1]
                          dest_field == Upper(Strip(Slice(data, 1, 10)))
                          message_text == From(From(data, 10), 1)
                          tagged == Contains(message_text, "{")
                          seq_part == SplitOnce(message_text, "{")[2]
                      IN  [ok |-> TRUE, src |-> src, dest_field |-> dest_field,
                           message_text |-> IF tagged
                                            THEN SplitOnce(message_text, "{")[1]
                                            ELSE message_text,
                           seq_num |-> IF tagged THEN LeadingDigits(seq_part, <<>>)
                                       ELSE <<>>]

\* a resolution that replies to the acknowledgement
HandleAckWithReply(st, src, lower_msg) ==
    LET seq_digits == LeadingDigits(From(lower_msg, 3), <<>>)
    IN  IF seq_digits # <<>>
        THEN SendMessage(
                 [st EXCEPT !.pending_acks = Remove(@, <<Upper(src), seq_digits>>)],
                 src, ACK \o seq_digits)
        ELSE st

\* a resolution that drops the tag for every station
HandleAckOfAnyStation(st, src, lower_msg) ==
    LET seq_digits == LeadingDigits(From(lower_msg, 3), <<>>)
    IN  [st EXCEPT !.pending_acks =
            [k \in {x \in DOMAIN @ : x[2] # seq_digits} |-> @[k]]]

\* a resolution that drops every entry of the station
HandleAckDropsAll(st, src, lower_msg) ==
    LET seq_digits == LeadingDigits(From(lower_msg, 3), <<>>)
    IN  IF seq_digits # <<>>
        THEN [st EXCEPT !.pending_acks =
                 [k \in {x \in DOMAIN @ : x[1] # Upper(src)} |-> @[k]]]
        ELSE st

\* the branches for 'ack' and 'rej' (lines 326-361): the entry is popped when
\* digits follow, and the handler returns in either case
HandleAck(st, src, lower_msg) ==
    LET seq_digits == LeadingDigits(From(lower_msg, 3), <<>>)
    IN  IF seq_digits # <<>>
        THEN [st EXCEPT !.pending_acks = Remove(@, <<Upper(src), seq_digits>>)]
        ELSE st

\* the body starts with 'ack' or with 'rej' (lines 326, 344)
IsAckOrRej(lower_msg) == StartsWith(lower_msg, ACK) \/ StartsWith(lower_msg, REJ)

\* a handler that does not look at the addressee
HandlePacketOfAnyAddressee(st, callsign, line, order) ==
    LET f == ParsePacket(line)
        lower_msg == Lower(Strip(f.message_text))
    IN  IF ~f.ok THEN st
        ELSE IF IsAckOrRej(lower_msg) THEN HandleAck(st, f.src, lower_msg)
        ELSE LET st1 == ProcessCommand(st, Upper(f.src), Strip(f.message_text), order)
             IN  IF f.seq_num # <<>>
                 THEN SendMessage(st1, f.src, ACK \o f.seq_num)
                 ELSE st1

\* _handle_packet of the BBS whose callsign is callsign, on the stores st
HandlePacket(st, callsign, line, order) ==
    LET f == ParsePacket(line)
        lower_msg == Lower(Strip(f.message_text))
    IN  IF ~f.ok THEN st
        ELSE IF f.dest_field # callsign THEN st
        ELSE IF IsAckOrRej(lower_msg) THEN HandleAck(st, f.src, lower_msg)
        ELSE LET st1 == ProcessCommand(st, Upper(f.src), Strip(f.message_text), order)
             IN  IF f.seq_num # <<>>
                 THEN SendMessage(st1, f.src, ACK \o f.seq_num)
                 ELSE st1

-----------------------------------------------------------------------------
(* The lines the receive loop reads *)

\* self.callsign = callsign.upper()
Callsign == Upper(<<"b","b","s">>)

A == <<"A">>
B == <<"B">>
G == <<"g">>
H == <<"h">>
HI == <<"h","i">>
YO == <<"y","o">>

\* SRC>DEST:DATA with DATA = :ADDRESSEE:TEXT, the addressee padded to 9
Line(src, addressee, text) ==
    src \o <<">","A","P",":",":">> \o Ljust9(addressee) \o <<":">> \o text

\* a line addressed to the BBS
ToBBS(src, text) == Line(src, Callsign, text)

\* text with a "{" and what follows it appended
Tagged(text, suffix) == text \o <<"{">> \o suffix

LowerA == <<"a">>
LowerB == <<"b">>
OtherStation == <<"O","T","H">>
C == <<"C">>

\* well-formed lines addressed to another station
MisdirectedLines == {
    Line(A, OtherStation, Tagged(LOGIN, <<"7">>)),
    Line(B, OtherStation, Join(<<MSG, B, HI>>)),
    Line(A, OtherStation, Join(<<GROUP, CREATE, G>>)),
    Line(A, OtherStation, ACK \o <<"0","1">>) }

\* lines _handle_packet returns on before it has an addressee, and lines the
\* receive loop skips
MalformedLines == {
    <<"A">>,
    <<"A", ":", ":">> \o Ljust9(Callsign) \o <<":">> \o LOGIN,
    <<"A", ">", "Q", ":">> \o LOGIN,
    <<"A", ">", "Q", ":", ":", "B", "B", "S", ":">> \o LOGIN,
    <<"A", ">", "Q", ":", ":">> \o Ljust9(Callsign) \o <<"x">> \o LOGIN,
    <<"#", " ", "x">>,
    <<" ">> }

\* acknowledgements, sequence tags and text that is no command
ProtocolLines == {
    ToBBS(A, <<"x">>),
    ToBBS(LowerA, Tagged(<<"x">>, <<"7">>)),
    ToBBS(B, Tagged(<<"x">>, <<"1","2","3","4","5","6">>)),
    ToBBS(B, Tagged(<<"x">>, <<"z">>)),
    ToBBS(A, Tagged(<<>>, <<"0">>)),
    ToBBS(B, HELP),
    ToBBS(A, <<" ">>),
    ToBBS(A, ACK),
    ToBBS(A, Tagged(ACK \o <<"b","a","r">>, <<"7">>)),
    ToBBS(B, Join(<<REJ \o <<"o","i","n">>, <<"x">>>>)),
    ToBBS(A, ACK \o <<"0","1">>),
    ToBBS(LowerA, ACK \o <<"0","2">>),
    ToBBS(A, REJ \o <<"0","1">>),
    ToBBS(B, Upper(ACK) \o <<"0","1">>),
    ToBBS(B, REJ \o <<"0","2">>),
    ToBBS(A, ACK \o <<"1">>),
    ToBBS(A, Tagged(ACK \o <<"0","1">>, <<"7">>)),
    ToBBS(B, Tagged(REJ \o <<"0","1">>, <<"7">>)),
    ToBBS(A, Join(<<MSG, B, HI>>)),
    ToBBS(B, Join(<<GROUP, CREATE, G>>)) }
        \cup MalformedLines

\* mailbox commands
MailLines == {
    ToBBS(A, Join(<<MSG, B, HI>>)),
    ToBBS(A, Join(<<MSG, B, YO>>)),
    ToBBS(B, Join(<<SEND, LowerB, HI>>)),
    ToBBS(B, Join(<<MSG, B>>)),
    ToBBS(B, LOGIN),
    ToBBS(LowerB, Tagged(LOGIN, <<"7">>)),
    ToBBS(A, LOGIN),
    ToBBS(B, ACK \o <<"0","1">>),
    Line(B, OtherStation, LOGIN) }
        \cup MisdirectedLines

\* chat group commands
GroupLines == {
    ToBBS(A, Join(<<GROUP, CREATE, G>>)),
    ToBBS(B, Join(<<GROUP, CREATE, G>>)),
    ToBBS(A, Join(<<GROUP, JOIN, G>>)),
    ToBBS(B, Join(<<GROUP, JOIN, G>>)),
    ToBBS(A, Join(<<GROUP, LEAVE, G>>)),
    ToBBS(B, Join(<<GROUP, LEAVE, G>>)),
    ToBBS(A, Join(<<GROUP, MSG, G, HI>>)),
    ToBBS(B, Join(<<GROUP, JOIN>>)),
    Line(B, OtherStation, Join(<<GROUP, LEAVE, G>>)) }

\* a chat group of three stations
CastLines == {
    ToBBS(A, Join(<<GROUP, CREATE, G>>)),
    ToBBS(B, Join(<<GROUP, JOIN, G>>)),
    ToBBS(C, Join(<<GROUP, JOIN, G>>)),
    ToBBS(A, Join(<<GROUP, MSG, G, HI, YO>>)),
    ToBBS(B, Tagged(Join(<<GROUP, MSG, G, YO>>), <<"7">>)),
    ToBBS(C, Join(<<GROUP, MSG, G, HI>>)),
    ToBBS(C, Join(<<GROUP, LEAVE, G>>)) }

\* commands with arguments missing, among commands that are complete
UsageLines == {
    ToBBS(A, GROUP),
    ToBBS(B, Join(<<GROUP, HI, G>>)),
    ToBBS(A, Join(<<GROUP, CREATE>>)),
    ToBBS(B, Join(<<GROUP, JOIN>>)),
    ToBBS(A, Join(<<GROUP, LEAVE>>)),
    ToBBS(B, Join(<<GROUP, MSG, G>>)),
    ToBBS(A, MSG),
    ToBBS(B, Join(<<SEND, A>>)),
    ToBBS(A, Join(<<MSG, B, HI>>)),
    ToBBS(A, Join(<<MSG, B, YO>>)),
    ToBBS(B, Tagged(Join(<<SEND, LowerB, YO, HI>>), <<"7">>)),
    ToBBS(B, Join(<<GROUP, CREATE, G>>)) }

\* a word with its first letter in upper case
Capital(word) == <<UpperChar(Head(word))>> \o Tail(word)

\* commands written in upper, lower and mixed case
CaseLines == {
    ToBBS(A, Join(<<Upper(GROUP), Upper(CREATE), Upper(G)>>)),
    ToBBS(B, Join(<<GROUP, CREATE, G>>)),
    ToBBS(B, Join(<<Capital(GROUP), Capital(JOIN), Upper(G)>>)),
    ToBBS(A, Join(<<GROUP, LEAVE, Upper(G)>>)),
    ToBBS(B, Join(<<GROUP, Upper(LEAVE), G>>)),
    ToBBS(A, Join(<<GROUP, Upper(MSG), Upper(G), Capital(HI)>>)),
    ToBBS(A, Join(<<Capital(MSG), B, Capital(HI)>>)),
    ToBBS(A, Join(<<Upper(SEND), B, YO>>)),
    ToBBS(B, Tagged(Upper(LOGIN), <<"7">>)),
    ToBBS(B, Capital(HELP)) }

\* mailbox commands and commands on two chat groups
MixedLines == {
    ToBBS(A, Join(<<MSG, B, HI>>)),
    ToBBS(B, Join(<<SEND, A, YO>>)),
    ToBBS(A, LOGIN),
    ToBBS(B, Tagged(LOGIN, <<"7">>)),
    ToBBS(A, Join(<<GROUP, CREATE, G>>)),
    ToBBS(B, Join(<<GROUP, CREATE, H>>)),
    ToBBS(B, Join(<<GROUP, JOIN, G>>)),
    ToBBS(A, Join(<<GROUP, LEAVE, G>>)),
    ToBBS(A, Join(<<GROUP, MSG, G, HI>>)),
    ToBBS(B, HELP) }

\* deposits and logins of two stations
HistoryLines == {
    ToBBS(A, Join(<<MSG, B, HI>>)),
    ToBBS(A, Join(<<SEND, LowerB, YO>>)),
    ToBBS(B, Join(<<MSG, A, HI, YO>>)),
    ToBBS(B, LOGIN),
    ToBBS(LowerB, Tagged(LOGIN, <<"7">>)),
    ToBBS(A, LOGIN) }

\* deposits, a login and a message to a chat group
BeaconLines == {
    ToBBS(A, Join(<<MSG, B, HI>>)),
    ToBBS(A, Join(<<MSG, B, YO>>)),
    ToBBS(B, Tagged(LOGIN, <<"7">>)),
    ToBBS(A, Join(<<GROUP, CREATE, G>>)),
    ToBBS(B, Join(<<GROUP, JOIN, G>>)),
    ToBBS(A, Join(<<GROUP, MSG, G, HI>>)) }

\* the orders in which iteration may visit the members of the chat groups
VisitOrders(S) == {o \in [1..Cardinality(S) -> S] :
                       \A i, j \in DOMAIN o : i # j => o[i] # o[j]}
Orders(groups) == VisitOrders(UNION {groups[g] : g \in DOMAIN groups})

-----------------------------------------------------------------------------
(* State and actions *)

\* the number of sequence numbers handed out so far (no counter has wrapped)
RECURSIVE Handed(_, _)
Handed(seqs, keys) ==
    IF keys = {} THEN 0
    ELSE LET k == CHOOSE k \in keys : TRUE
         IN  (seqs[k] - 1) + Handed(seqs, keys \ {k})

\* a line that makes the BBS send is read while fewer sequence numbers than
\* this have been handed out: on the feed of protocol lines, of mailbox
\* commands, of chat group commands, of the chat group of three stations, of
\* commands with arguments missing, of commands in upper and mixed case and
\* of mailbox commands among commands on two chat groups, of deposits and
\* logins of two stations and of the lines read while the beacon thread runs
MaxIssued == 2
MaxIssuedMail == 3
MaxIssuedGroup == 4
MaxIssuedCast == 4
MaxIssuedUsage == 3
MaxIssuedCase == 3
MaxIssuedMixed == 3
MaxIssuedHistory == 4
MaxIssuedBeacon == 3

\* send_object writes an object packet while it has written fewer than this
MaxObjects == 2

Stores == [mailboxes |-> mailboxes, chat_groups |-> chat_groups,
           next_seq |-> next_seq, pending_acks |-> pending_acks, out |-> <<>>]

\* the tag attached last to a message for each station, after the messages of s
RECURSIVE LastTags(_, _)
LastTags(last, s) ==
    IF s = <<>> THEN last
    ELSE LastTags(IF Head(s).tag # <<>>
                  THEN Put(last, Upper(Head(s).to), Head(s).tag)
                  ELSE last,
                  Tail(s))

\* the value of d under k, or v when d has no key k: d.get(k, v)
Get(d, k, v) == IF k \in DOMAIN d THEN d[k] ELSE v

\* the deposits asked for so far, after the line: a line addressed to the BBS
\* whose first word is msg or send and that has a callsign and a text asks
\* to deposit (sender, text) for the callsign
Asked(log, line) ==
    LET f == ParsePacket(line)
        words == Split(Strip(f.message_text))
    IN  IF /\ f.ok
           /\ f.dest_field = Callsign
           /\ Len(words) >= 3
           /\ Lower(words[1]) \in {MSG, SEND}
        THEN Put(log, Upper(words[2]),
                 Append(Get(log, Upper(words[2]), <<>>),
                        <<Upper(f.src), Join(SubSeq(words, 3, Len(words)))>>))
        ELSE log

\* the delivery texts written so far for each station, after the messages of s
RECURSIVE Written(_, _)
Written(log, s) ==
    IF s = <<>> THEN log
    ELSE Written(IF Head(s).body # <<>> /\ Head(s).body[1] = "From "
                 THEN Put(log, Upper(Head(s).to),
                          Append(Get(log, Upper(Head(s).to), <<>>), Head(s).body))
                 ELSE log,
                 Tail(s))

\* the state after __init__
Init ==
    /\ mailboxes = <<>>
    /\ chat_groups = <<>>
    /\ next_seq = <<>>
    /\ pending_acks = <<>>
    /\ sock_file = FALSE
    /\ running = FALSE
    /\ packet = <<>>
    /\ out = <<>>
    /\ issued = <<>>
    /\ deposited = <<>>
    /\ delivered = <<>>
    /\ handling = <<>>
    /\ objects = 0

\* connect(): the socket file is made and the receive thread started
Connect ==
    /\ ~running /\ ~sock_file
    /\ sock_file' = TRUE
    /\ running' = TRUE
    /\ UNCHANGED <<mailboxes, chat_groups, next_seq, pending_acks, packet, out,
                   issued, deposited, delivered, handling, objects>>

\* one iteration of _receive_loop that reads the line raw
ReceiveLine(raw, order, max) ==
    LET line == Strip(raw)
        skip == line = <<>> \/ StartsWith(line, <<"#">>)
    IN  /\ running
        /\ handling = <<>>
        /\ \E st \in {IF skip THEN Stores
                       ELSE HandlePacket(Stores, Callsign, line, order)} :
              /\ st.out = <<>> \/ Handed(next_seq, DOMAIN next_seq) < max
              /\ packet' = line
              /\ mailboxes' = st.mailboxes
              /\ chat_groups' = st.chat_groups
              /\ next_seq' = st.next_seq
              /\ pending_acks' = st.pending_acks
              /\ out' = st.out
              /\ issued' = LastTags(issued, st.out)
              /\ deposited' = IF skip THEN deposited ELSE Asked(deposited, line)
              /\ delivered' = Written(delivered, st.out)
        /\ UNCHANGED <<sock_file, running, handling, objects>>

Receive(lines, max) ==
    \E raw \in lines : \E order \in Orders(chat_groups) : ReceiveLine(raw, order, max)

\* close(), or the server closing the connection: the receive loop ends
Close ==
    /\ running
    /\ handling = <<>>
    /\ running' = FALSE
    /\ UNCHANGED <<mailboxes, chat_groups, next_seq, pending_acks, sock_file,
                   packet, out, issued, deposited, delivered, handling, objects>>

\* one thing a handler has still to do: a call _send_message(to, message,
\* expect_ack=expect_ack), or the assignment self.mailboxes[to] = []
SendCall(to_call, message, expect_ack) ==
    [op |-> "send", to |-> to_call, message |-> message, expect_ack |-> expect_ack]
ClearBox(callsign) ==
    [op |-> "clear", to |-> callsign, message |-> <<>>, expect_ack |-> FALSE]

\* the loop of _handle_login over the inbox, and the assignment behind it
DeliveryCalls(callsign, inbox) ==
    [i \in 1..Len(inbox) |->
        SendCall(callsign, DeliveryText(inbox[i][1], inbox[i][2]), TRUE)]
        \o <<ClearBox(callsign)>>

\* the loop of _group_message over the members, and the confirmation behind it
CopyCalls(caller, group_name, message, visit) ==
    LET others == SelectSeq(visit, LAMBDA m : m # caller)
    IN  [i \in 1..Len(others) |->
            SendCall(others[i], GroupCopyText(group_name, caller, message), TRUE)]
            \o <<SendCall(caller, SentToGroupText(group_name), ExpectAckDefault)>>

\* `if seq_num: self._send_message(src, f"ack{seq_num}")` (lines 366-368)
AckCalls(src, seq_num) ==
    IF seq_num # <<>>
    THEN <<SendCall(src, ACK \o seq_num, ExpectAckDefault)>>
    ELSE <<>>

\* what _handle_packet has to do for a line that makes it loop: a login of a
\* station with entries in its mailbox, or a `group msg` of a member; <<>>
\* for every other line
LoopCalls(st, callsign, line, order) ==
    LET f == ParsePacket(line)
        text == Strip(f.message_text)
        from_call == Upper(f.src)
        parts == Split(text)
        group_name == Lower(parts[3])
    IN  IF ~f.ok \/ f.dest_field # callsign \/ IsAckOrRej(Lower(text))
           \/ parts = <<>>
        THEN <<>>
        ELSE IF Lower(parts[1]) = LOGIN
        THEN IF Get(st.mailboxes, from_call, <<>>) # <<>>
             THEN DeliveryCalls(from_call, st.mailboxes[from_call])
                     \o AckCalls(f.src, f.seq_num)
             ELSE <<>>
        ELSE IF /\ Lower(parts[1]) = GROUP
                /\ Len(parts) >= 4
                /\ Lower(parts[2]) = MSG
                /\ ~NoMembers(st.chat_groups, group_name)
                /\ from_call \in st.chat_groups[group_name]
        THEN CopyCalls(from_call, group_name, Join(SubSeq(parts, 4, Len(parts))),
                       SelectSeq(order, LAMBDA m : m \in st.chat_groups[group_name]))
                \o AckCalls(f.src, f.seq_num)
        ELSE <<>>

\* the receive loop reads a line that makes the handler loop, and the handler
\* comes to the first call of the loop
BeginLine(raw, order, max) ==
    LET line == Strip(raw)
    IN  /\ running
        /\ handling = <<>>
        /\ Handed(next_seq, DOMAIN next_seq) < max
        /\ LoopCalls(Stores, Callsign, line, order) # <<>>
        /\ handling' = [calls |-> LoopCalls(Stores, Callsign, line, order),
                        from |-> Stores, order |-> order, objects |-> objects]
        /\ packet' = line
        /\ out' = <<>>
        /\ UNCHANGED <<mailboxes, chat_groups, next_seq, pending_acks, sock_file,
                       running, issued, deposited, delivered, objects>>

Begin(lines, max) ==
    \E raw \in lines : \E order \in Orders(chat_groups) : BeginLine(raw, order, max)

\* the handler in progress does the next thing it has to do
Continue ==
    /\ handling # <<>>
    /\ LET call == Head(handling.calls)
       IN  \E st \in {IF call.op = "send"
                      THEN SendMessageAck([Stores EXCEPT !.out = out], call.to,
                                          call.message, call.expect_ack)
                      ELSE [Stores EXCEPT !.out = out,
                                          !.mailboxes = Put(@, call.to, <<>>)]} :
              /\ mailboxes' = st.mailboxes
              /\ chat_groups' = st.chat_groups
              /\ next_seq' = st.next_seq
              /\ pending_acks' = st.pending_acks
              /\ out' = st.out
              /\ issued' = LastTags(issued, SubSeq(st.out, Len(out) + 1, Len(st.out)))
              /\ delivered' = Written(delivered,
                                      SubSeq(st.out, Len(out) + 1, Len(st.out)))
    /\ handling' = IF Tail(handling.calls) = <<>> THEN <<>>
                   ELSE [handling EXCEPT !.calls = Tail(@)]
    /\ UNCHANGED <<sock_file, running, packet, deposited, objects>>

\* an object packet that goes through _send_message
SendObjectAsMessage ==
    /\ running /\ sock_file
    /\ objects < MaxObjects
    /\ objects' = objects + 1
    /\ \E st \in {SendMessage(Stores, Callsign, <<";">>)} :
          /\ next_seq' = st.next_seq
          /\ pending_acks' = st.pending_acks
    /\ UNCHANGED <<mailboxes, chat_groups, sock_file, running, packet, out,
                   issued, deposited, delivered, handling>>

\* send_object, called by beacon_loop in the beacon thread while the BBS is
\* running: one object packet is written to the socket file
SendObject ==
    /\ running /\ sock_file
    /\ objects < MaxObjects
    /\ objects' = objects + 1
    /\ UNCHANGED <<mailboxes, chat_groups, next_seq, pending_acks, sock_file,
                   running, packet, out, issued, deposited, delivered, handling>>

\* the BBS on a feed of acknowledgements, tagged lines and noise
Next == Connect \/ Receive(ProtocolLines, MaxIssued) \/ Close
Spec == Init /\ [][Next]_vars

\* the BBS on a feed of mailbox commands
NextMail == Connect \/ Receive(MailLines, MaxIssuedMail) \/ Close
SpecMail == Init /\ [][NextMail]_vars

\* the BBS on a feed of chat group commands
NextGroup == Connect \/ Receive(GroupLines, MaxIssuedGroup) \/ Close
SpecGroup == Init /\ [][NextGroup]_vars

\* the BBS on the feed of a chat group of three stations
NextCast == Connect \/ Receive(CastLines, MaxIssuedCast) \/ Close
SpecCast == Init /\ [][NextCast]_vars

\* the BBS on a feed of commands with arguments missing
NextUsage == Connect \/ Receive(UsageLines, MaxIssuedUsage) \/ Close
SpecUsage == Init /\ [][NextUsage]_vars

\* the BBS on a feed of commands in upper, lower and mixed case
NextCase == Connect \/ Receive(CaseLines, MaxIssuedCase) \/ Close
SpecCase == Init /\ [][NextCase]_vars

\* the BBS on a feed of mailbox commands and commands on two chat groups
NextMixed == Connect \/ Receive(MixedLines, MaxIssuedMixed) \/ Close
SpecMixed == Init /\ [][NextMixed]_vars

\* the BBS on a feed of deposits and logins of two stations
NextHistory == Connect \/ Receive(HistoryLines, MaxIssuedHistory) \/ Close
SpecHistory == Init /\ [][NextHistory]_vars

\* the BBS with the beacon thread: the receive thread handles a line in one
\* step, or call by call where the handler loops, and the beacon thread
\* writes an object packet between any two steps
NextBeacon ==
    \/ Connect
    \/ Receive(BeaconLines, MaxIssuedBeacon)
    \/ Begin(BeaconLines, MaxIssuedBeacon)
    \/ Continue
    \/ SendObject
    \/ Close
SpecBeacon == Init /\ [][NextBeacon]_vars

-----------------------------------------------------------------------------
(* Reading a step: the line that was handled and what was sent for it *)

\* the step reads a line (it is neither connect() nor close())
Reads == running /\ running'

\* the line is well formed and carries an addressee
WellFormed(line) == ParsePacket(line).ok

\* the line is addressed to the BBS / to another station
ForBBS(line) == WellFormed(line) /\ ParsePacket(line).dest_field = Callsign
Misdirected(line) == WellFormed(line) /\ ParsePacket(line).dest_field # Callsign

\* the station the line comes from
Sender(line) == Upper(ParsePacket(line).src)

\* the body of the line, trimmed, and its words
BodyOf(line) == Strip(ParsePacket(line).message_text)
WordsOf(line) == Split(BodyOf(line))

\* the digits of the sequence tag of the line (<<>>: it carries none)
TagOf(line) == ParsePacket(line).seq_num

\* the body is `ack` or `rej` followed by at least one digit
IsAcknowledgement(line) ==
    /\ IsAckOrRej(Lower(BodyOf(line)))
    /\ LeadingDigits(From(Lower(BodyOf(line)), 3), <<>>) # <<>>

\* the digits that follow `ack` or `rej`
AckDigits(line) == LeadingDigits(From(Lower(BodyOf(line)), 3), <<>>)

\* the line is a command with the given first word, addressed to the BBS
IsCommand(line, word) ==
    /\ ForBBS(line)
    /\ ~IsAcknowledgement(line)
    /\ WordsOf(line) # <<>>
    /\ Lower(WordsOf(line)[1]) = word

\* the messages of s that satisfy Test, in the order of s
IsDelivery(m) == m.body[1] = "From "
IsAckReply(m) == StartsWith(m.body, ACK)

\* the bodies and the addressees of the messages of s
Bodies(s) == [i \in 1..Len(s) |-> s[i].body]
Addressees(s) == {s[i].addressee : i \in 1..Len(s)}

\* the delivery texts of the entries of a mailbox, in order
Expected(inbox) == [i \in 1..Len(inbox) |-> DeliveryText(inbox[i][1], inbox[i][2])]

-----------------------------------------------------------------------------
(* Mailbox delivery *)

\* C1: a login from R whose mailbox holds N >= 1 entries emits exactly N
\* delivery messages "From <sender>: <body>", addressed to R, in the order of
\* deposit, emits no "No new messages." and leaves the mailbox of R empty.
C1_LoginDeliversAll ==
    [][(/\ Reads
        /\ IsCommand(packet', LOGIN)
        /\ Sender(packet') \in DOMAIN mailboxes
        /\ mailboxes[Sender(packet')] # <<>>)
       => LET R == Sender(packet')
              deliveries == SelectSeq(out', IsDelivery)
          IN  /\ Bodies(deliveries) = Expected(mailboxes[R])
              /\ Addressees(deliveries) = {Ljust9(R)}
              /\ \A i \in 1..Len(out') :
                    /\ out'[i].body # NoNewMessages
                    /\ IsDelivery(out'[i]) \/ IsAckReply(out'[i])
              /\ mailboxes'[R] = <<>>]_vars

\* two deposits for B by different commands have been delivered, in order,
\* on a login of B
C1_Witness ==
    /\ IsCommand(packet, LOGIN)
    /\ Sender(packet) = B
    /\ Len(SelectSeq(out, IsDelivery)) = 2
    /\ Bodies(SelectSeq(out, IsDelivery)) = <<DeliveryText(A, HI), DeliveryText(A, YO)>>
    /\ mailboxes[B] = <<>>

-----------------------------------------------------------------------------
(* Chat groups *)

\* C5: in every reachable state every chat group of the group store has at
\* least one member; the group is gone in the state that follows the step in
\* which its last member leaves.
C5_NoEmptyGroup ==
    \A g \in DOMAIN chat_groups : chat_groups[g] # {}

\* the last member of g has just left: the reply is sent and g is gone
C5_Witness ==
    /\ IsCommand(packet, GROUP)
    /\ Len(out) = 1
    /\ out[1].body = LeftText(G)
    /\ G \notin DOMAIN chat_groups

-----------------------------------------------------------------------------
(* Lines for other stations, acknowledgements *)

\* C6: handling a well-formed line whose addressee is not the callsign of
\* the BBS emits nothing (whether or not the line carries a sequence tag,
\* and whether its body is a command or an ack) and leaves mailboxes,
\* groups, sequence counters and pending acks unchanged.
C6_MisdirectedIsDropped ==
    [][(Reads /\ Misdirected(packet'))
       => /\ out' = <<>>
          /\ UNCHANGED <<mailboxes, chat_groups, next_seq, pending_acks>>]_vars

\* a tagged login for another station was read from a station whose mailbox
\* holds mail, and the mail is still there
C6_Witness ==
    /\ running
    /\ Misdirected(packet)
    /\ TagOf(packet) # <<>>
    /\ IsCommand(ToBBS(A, BodyOf(packet)), LOGIN)
    /\ B \in DOMAIN mailboxes /\ mailboxes[B] # <<>>
    /\ pending_acks # <<>>
    /\ out = <<>>

\* C9: an inbound ack<digits> or rej<digits> line addressed to the BBS never
\* produces an outbound line (no reply, no ack of it when it carries a
\* sequence tag, no retransmission after a rej) and changes no mailbox, no
\* group and no sequence counter.
C9_AckIsSilent ==
    [][(Reads /\ ForBBS(packet') /\ IsAcknowledgement(packet'))
       => /\ out' = <<>>
          /\ UNCHANGED <<mailboxes, chat_groups, next_seq>>]_vars

\* a rej that carries a sequence tag has resolved a pending message of B:
\* nothing was sent for it
C9_Witness ==
    /\ running
    /\ ForBBS(packet) /\ IsAcknowledgement(packet)
    /\ StartsWith(Lower(BodyOf(packet)), REJ)
    /\ TagOf(packet) # <<>>
    /\ B \in DOMAIN next_seq /\ next_seq[B] > 1
    /\ <<B, AckDigits(packet)>> \notin DOMAIN pending_acks
    /\ out = <<>>

\* C10: an ack<tag> or rej<tag> line from station S for which the pending
\* table has no entry (S, tag) changes no store, pending table included, and
\* emits nothing.
C10_UnknownAckIsNoOp ==
    [][(/\ Reads /\ ForBBS(packet') /\ IsAcknowledgement(packet')
        /\ <<Sender(packet'), AckDigits(packet')>> \notin DOMAIN pending_acks)
       => /\ out' = <<>>
          /\ UNCHANGED <<mailboxes, chat_groups, next_seq, pending_acks>>]_vars

\* A acknowledges tag 1 without the leading zero while its message 01 is
\* pending: the entry stays
C10_Witness ==
    /\ running
    /\ ForBBS(packet) /\ IsAcknowledgement(packet)
    /\ Sender(packet) = A
    /\ AckDigits(packet) = <<"1">>
    /\ <<A, <<"0","1">>>> \in DOMAIN pending_acks
    /\ out = <<>>

-----------------------------------------------------------------------------
(* Sequence tags and pending acknowledgements *)

\* the number a two-digit tag stands for, and the tag that follows it in the
\* cycle 01, 02, ..., 99, 01, ...
TagNumber(tag) == CHOOSE n \in 1..SeqModulus : Format02d(n) = tag
TagAfter(tag) == Format02d((TagNumber(tag) % SeqModulus) + 1)

\* the tags of the tagged messages of s for station D, in the order of s
TagsTo(s, D) ==
    LET tagged == SelectSeq(s, LAMBDA m : m.tag # <<>> /\ Upper(m.to) = D)
    IN  [i \in 1..Len(tagged) |-> tagged[i].tag]

\* tags continues the cycle after the tag issued last (last maps the stations
\* that were issued a tag to it)
ContinuesCycle(last, D, tags) ==
    \A i \in 1..Len(tags) :
        tags[i] = IF i > 1 THEN TagAfter(tags[i - 1])
                  ELSE IF D \in DOMAIN last THEN TagAfter(last[D])
                  ELSE Format02d(FirstSeqNum)

\* C2: for each destination station the tags attached to successive tagged
\* outbound messages are 01, 02, ..., 99, 01, ... in that order, whatever
\* lines are read in between.
C2_TagsCycle ==
    [][Reads => \A D \in {Upper(out'[i].to) : i \in 1..Len(out')} :
                    ContinuesCycle(issued, D, TagsTo(out', D))]_vars

\* C3: every message sent with a tag T to destination D is in the pending
\* table under (D, T) with its untagged body, and an ack<T> or rej<T> line
\* from D removes exactly the entry (D, T).
C3_AckRoundTrip ==
    [][Reads =>
        /\ \A i \in 1..Len(out') :
              out'[i].tag # <<>> =>
                  /\ PendingKey(out'[i].to, out'[i].tag) \in DOMAIN pending_acks'
                  /\ pending_acks'[PendingKey(out'[i].to, out'[i].tag)] = out'[i].body
        /\ (ForBBS(packet') /\ IsAcknowledgement(packet'))
              => pending_acks' =
                     Remove(pending_acks, <<Sender(packet'), AckDigits(packet')>>)]_vars

\* the message is a copy of a group message; it is one of the replies that
\* are neither a mailbox delivery nor a group copy nor the ack of a tagged line
IsGroupCopy(m) == m.body[1] = "["
IsPlainReply(m) == ~IsDelivery(m) /\ ~IsGroupCopy(m) /\ ~IsAckReply(m)

\* C4: help lines, confirmations and usage or error replies are sent without
\* a tag, advance no sequence counter and create no pending entry.
C4_RepliesAreUntagged ==
    [][Reads =>
        /\ \A i \in 1..Len(out') : IsPlainReply(out'[i]) => out'[i].tag = <<>>
        /\ (out' # <<>> /\ \A i \in 1..Len(out') : IsPlainReply(out'[i]))
              => UNCHANGED <<next_seq, pending_acks>>]_vars

\* C7: for a line addressed to the BBS that is no ack/rej, a sequence tag on
\* the line yields exactly one message ack<digits> to the sender, sent last;
\* a line without a sequence tag yields none.
C7_TaggedLineIsAcked ==
    [][(Reads /\ ForBBS(packet') /\ ~IsAcknowledgement(packet')) =>
        IF TagOf(packet') # <<>>
        THEN /\ out' # <<>>
             /\ out'[Len(out')].body = ACK \o TagOf(packet')
             /\ out'[Len(out')].addressee = Ljust9(Sender(packet'))
             /\ Len(SelectSeq(out', IsAckReply)) = 1
        ELSE SelectSeq(out', IsAckReply) = <<>>]_vars

\* C8: a body that starts with ack or rej without a digit after it goes to
\* the command engine: the sender gets the "Unknown command" reply, and an
\* ack<tag> if the line carried a sequence tag.
C8_AckWithoutDigitsIsCommand ==
    [][(/\ Reads /\ ForBBS(packet')
        /\ IsAckOrRej(Lower(BodyOf(packet')))
        /\ ~IsAcknowledgement(packet')) =>
        /\ out' # <<>>
        /\ out'[1].body = UnknownCommand
        /\ out'[1].addressee = Ljust9(Sender(packet'))
        /\ TagOf(packet') # <<>> => out'[Len(out')].body = ACK \o TagOf(packet')]_vars

-----------------------------------------------------------------------------
(* Chat group commands *)

\* what was sent for the command of the line: the messages of s without the
\* acknowledgement of the tag of the line, which is sent last
RepliesTo(line, s) ==
    IF TagOf(line) # <<>> /\ s # <<>> /\ s[Len(s)].body = ACK \o TagOf(line)
    THEN SubSeq(s, 1, Len(s) - 1)
    ELSE s

\* the line is `group <sub> <name> ...` with at least n words
IsGroupCommand(line, sub, n) ==
    /\ IsCommand(line, GROUP)
    /\ Len(WordsOf(line)) >= n
    /\ Lower(WordsOf(line)[2]) = sub

\* the group the line names
GroupOf(line) == Lower(WordsOf(line)[3])

\* the only message of s is `text`, addressed to `station`
OnlyReply(s, station, text) ==
    /\ Len(s) = 1
    /\ s[1].body = text
    /\ s[1].addressee = Ljust9(station)

\* C11: `group msg G text` from a member of G sends exactly one copy
\* "[G] <caller>: text" that requests an acknowledgement to every other member
\* of G, none to the caller or to a station outside G, then exactly one
\* confirmation to the caller, and leaves the members of G as they were; from
\* a station that is no member of G, or for a G that does not exist, the only
\* reply is "not a member" and no member receives anything.
C11_GroupMessageFansOut ==
    [][(Reads /\ IsGroupCommand(packet', MSG, 4))
       => LET caller == Sender(packet')
              g == GroupOf(packet')
              text == Join(SubSeq(WordsOf(packet'), 4, Len(WordsOf(packet'))))
              replies == RepliesTo(packet', out')
          IN  /\ chat_groups' = chat_groups
              /\ IF g \in DOMAIN chat_groups /\ caller \in chat_groups[g]
                 THEN LET others == chat_groups[g] \ {caller}
                          n == Cardinality(others)
                      IN  /\ Len(replies) = n + 1
                          /\ \A i \in 1..n :
                                /\ replies[i].body = GroupCopyText(g, caller, text)
                                /\ replies[i].tag # <<>>
                          /\ {replies[i].addressee : i \in 1..n}
                                = {Ljust9(m) : m \in others}
                          /\ replies[n + 1].body = SentToGroupText(g)
                          /\ replies[n + 1].addressee = Ljust9(caller)
                 ELSE OnlyReply(replies, caller, NotMemberText(g))]_vars

\* a message to a group of three has sent two copies and the confirmation
C11_Witness ==
    /\ running
    /\ IsGroupCommand(packet, MSG, 4)
    /\ G \in DOMAIN chat_groups
    /\ Cardinality(chat_groups[G]) = 3
    /\ Len(RepliesTo(packet, out)) = 3
    /\ out[1].addressee # out[2].addressee
    /\ out[1].body = GroupCopyText(G, Sender(packet), From(BodyOf(packet), 12))
    /\ out[3].body = SentToGroupText(G)

\* C12: `group create G` for a G that exists is answered by exactly one
\* "already exists" reply and leaves every group as it was, so a second caller
\* is not added; for a G that does not exist it makes G with the caller as its
\* only member and is answered by exactly one "created" reply.
C12_CreateIsExclusive ==
    [][(Reads /\ IsGroupCommand(packet', CREATE, 3))
       => LET caller == Sender(packet')
              g == GroupOf(packet')
              replies == RepliesTo(packet', out')
          IN  IF g \in DOMAIN chat_groups
              THEN /\ OnlyReply(replies, caller, AlreadyExistsText(g))
                   /\ chat_groups' = chat_groups
              ELSE /\ OnlyReply(replies, caller, CreatedText(g))
                   /\ chat_groups' = Put(chat_groups, g, {caller})]_vars

\* B has asked to create the group A made, and A is still its only member
C12_Witness ==
    /\ running
    /\ IsGroupCommand(packet, CREATE, 3)
    /\ Sender(packet) = B
    /\ OnlyReply(out, B, AlreadyExistsText(G))
    /\ G \in DOMAIN chat_groups
    /\ chat_groups[G] = {A}

\* C13: `group join G` from a station that is no member of the existing G
\* adds the station to G and is answered by exactly one "joined" reply; from a
\* member it is answered by exactly one "already a member" reply and changes
\* no group; for a G that does not exist it is answered by exactly one "does
\* not exist" reply and makes no group.
C13_JoinAddsOnce ==
    [][(Reads /\ IsGroupCommand(packet', JOIN, 3))
       => LET caller == Sender(packet')
              g == GroupOf(packet')
              replies == RepliesTo(packet', out')
          IN  IF g \notin DOMAIN chat_groups
              THEN /\ OnlyReply(replies, caller, NotExistText(g))
                   /\ chat_groups' = chat_groups
              ELSE IF caller \in chat_groups[g]
              THEN /\ OnlyReply(replies, caller, AlreadyMemberText(g))
                   /\ chat_groups' = chat_groups
              ELSE /\ OnlyReply(replies, caller, JoinedText(g))
                   /\ chat_groups' = [chat_groups EXCEPT ![g] = @ \cup {caller}]]_vars

\* B has joined the group of A and asked to join it again
C13_Witness ==
    /\ running
    /\ IsGroupCommand(packet, JOIN, 3)
    /\ OnlyReply(out, B, AlreadyMemberText(G))
    /\ G \in DOMAIN chat_groups
    /\ chat_groups[G] = {A, B}
    /\ \E k \in DOMAIN pending_acks :
          k[1] = B /\ pending_acks[k] = JoinedText(G)

\* C14: when the last member of G leaves, G exists no longer: a join of G
\* that follows is answered "does not exist" and a create of G that follows
\* makes G with the new creator as its only member; a leave from a station
\* that is no member of G, or for a G that does not exist, is answered by
\* exactly one "not a member" reply and changes no group.
C14_LastLeaveDissolves ==
    [][Reads =>
         LET caller == Sender(packet')
             g == GroupOf(packet')
             replies == RepliesTo(packet', out')
         IN  /\ IsGroupCommand(packet', LEAVE, 3)
                => IF g \in DOMAIN chat_groups /\ caller \in chat_groups[g]
                   THEN /\ OnlyReply(replies, caller, LeftText(g))
                        /\ chat_groups[g] = {caller}
                           => /\ g \notin DOMAIN chat_groups'
                              /\ chat_groups' = Remove(chat_groups, g)
                        /\ chat_groups[g] # {caller}
                           => chat_groups' =
                                 [chat_groups EXCEPT ![g] = @ \ {caller}]
                   ELSE /\ OnlyReply(replies, caller, NotMemberText(g))
                        /\ chat_groups' = chat_groups
             /\ (IsGroupCommand(packet', JOIN, 3) /\ g \notin DOMAIN chat_groups)
                => /\ OnlyReply(replies, caller, NotExistText(g))
                   /\ g \notin DOMAIN chat_groups'
             /\ (IsGroupCommand(packet', CREATE, 3) /\ g \notin DOMAIN chat_groups)
                => /\ OnlyReply(replies, caller, CreatedText(g))
                   /\ g \in DOMAIN chat_groups'
                   /\ chat_groups'[g] = {caller}]_vars

\* A made the group and left it, and B has made it anew
C14_Witness ==
    /\ running
    /\ IsGroupCommand(packet, CREATE, 3)
    /\ OnlyReply(out, B, CreatedText(G))
    /\ G \in DOMAIN chat_groups
    /\ chat_groups[G] = {B}
    /\ \E k \in DOMAIN pending_acks : k[1] = A /\ pending_acks[k] = LeftText(G)

-----------------------------------------------------------------------------
(* Commands with arguments missing *)

\* the line is a `group` command that names a sub-command and all the
\* arguments the sub-command takes
IsCompleteGroupCommand(line) ==
    \/ IsGroupCommand(line, CREATE, 3)
    \/ IsGroupCommand(line, JOIN, 3)
    \/ IsGroupCommand(line, LEAVE, 3)
    \/ IsGroupCommand(line, MSG, 4)

\* C15: every `group` command whose sub-command or arguments are missing or
\* not recognised (`group` alone, `group <other word> ...`, `group create`,
\* `group join` or `group leave` without a name, `group msg NAME` without a
\* text) is answered by exactly one usage reply, not by the "Unknown command"
\* reply, and changes no group and no mailbox.
C15_GroupMisuseGetsUsage ==
    [][(Reads /\ IsCommand(packet', GROUP) /\ ~IsCompleteGroupCommand(packet'))
       => /\ OnlyReply(RepliesTo(packet', out'), Sender(packet'), GroupUsage)
          /\ UNCHANGED <<mailboxes, chat_groups>>]_vars

\* C16: `msg` or `send` with fewer than two arguments is answered by exactly
\* one usage reply and deposits nothing, no mailbox is made; with a callsign
\* and a text it appends exactly one entry (caller, text) at the end of the
\* mailbox of the recipient, making the mailbox when there is none, and the
\* only reply is the confirmation to the caller: nothing is sent to the
\* recipient.
C16_MsgDepositsOnce ==
    [][(Reads /\ (IsCommand(packet', MSG) \/ IsCommand(packet', SEND)))
       => LET caller == Sender(packet')
              words == WordsOf(packet')
              replies == RepliesTo(packet', out')
          IN  IF Len(words) < 3
              THEN /\ OnlyReply(replies, caller, MsgUsage)
                   /\ mailboxes' = mailboxes
              ELSE LET to_call == Upper(words[2])
                       text == Join(SubSeq(words, 3, Len(words)))
                       inbox == IF to_call \in DOMAIN mailboxes
                                THEN mailboxes[to_call] ELSE <<>>
                   IN  /\ OnlyReply(replies, caller, StoredText(to_call))
                       /\ DOMAIN mailboxes' = DOMAIN mailboxes \cup {to_call}
                       /\ mailboxes'[to_call] = Append(inbox, <<caller, text>>)
                       /\ \A s \in DOMAIN mailboxes \ {to_call} :
                             mailboxes'[s] = mailboxes[s]]_vars

\* a second message for B has been put behind the first
C16_Witness ==
    /\ running
    /\ IsCommand(packet, MSG)
    /\ OnlyReply(out, A, StoredText(B))
    /\ B \in DOMAIN mailboxes
    /\ Len(mailboxes[B]) = 2
    /\ mailboxes[B][1] # mailboxes[B][2]
    /\ mailboxes[B][2] = <<A, From(BodyOf(packet), 6)>>

-----------------------------------------------------------------------------
(* Login with nothing to deliver *)

\* C17: a login from a station whose mailbox is absent or empty is answered
\* by exactly one "No new messages." and delivers nothing; after a login from
\* S the mailbox of S exists, and no step ever takes a mailbox out of the
\* store, so a login that follows another login of S is answered by exactly
\* one "No new messages." again.
C17_EmptyLoginIsIdempotent ==
    [][/\ DOMAIN mailboxes \subseteq DOMAIN mailboxes'
       /\ (Reads /\ IsCommand(packet', LOGIN))
          => LET S == Sender(packet')
             IN  /\ S \in DOMAIN mailboxes'
                 /\ mailboxes'[S] = <<>>
                 /\ (S \notin DOMAIN mailboxes \/ mailboxes[S] = <<>>)
                    => OnlyReply(RepliesTo(packet', out'), S, NoNewMessages)]_vars

\* B has logged in and received a message, and has logged in again
C17_Witness ==
    /\ running
    /\ IsCommand(packet, LOGIN)
    /\ OnlyReply(RepliesTo(packet, out), B, NoNewMessages)
    /\ B \in DOMAIN mailboxes
    /\ mailboxes[B] = <<>>
    /\ \E k \in DOMAIN pending_acks :
          k[1] = B /\ pending_acks[k] = DeliveryText(A, HI)

-----------------------------------------------------------------------------
(* Lines that are no message *)

\* the line has no ":"; or what stands before its first ":" has no ">"; or
\* what stands behind it does not start with ":", is shorter than ":" + nine
\* characters + ":", or has no ":" behind the nine characters
Malformed(line) ==
    \/ ~Contains(line, ":")
    \/ /\ Contains(line, ":")
       /\ LET header == SplitOnce(line, ":")[1]
              data == SplitOnce(line, ":")[2]
          IN  \/ ~Contains(header, ">")
              \/ data = <<>>
              \/ data[1] # ":"
              \/ Len(data) < AddresseeWidth + 2
              \/ data[AddresseeWidth + 2] # ":"

\* C18: the handler of a line is total and a malformed line is inert: a line
\* without ":", with a header without ">", with a payload that does not start
\* with ":", with a payload shorter than 11 characters or without ":" behind
\* the addressee field of 9 characters is handled without an error, sends
\* nothing and leaves every store as it was.
C18_MalformedIsInert ==
    [][(Reads /\ Malformed(packet'))
       => /\ out' = <<>>
          /\ UNCHANGED <<mailboxes, chat_groups, next_seq, pending_acks>>]_vars

\* a line with a payload of full length that has no ":" behind the addressee
\* field has been read while a message waits for its acknowledgement
C18_Witness ==
    /\ running
    /\ Malformed(packet)
    /\ Contains(packet, ":")
    /\ Len(SplitOnce(packet, ":")[2]) > AddresseeWidth + 2
    /\ SplitOnce(packet, ":")[2][1] = ":"
    /\ pending_acks # <<>>
    /\ out = <<>>

-----------------------------------------------------------------------------
(* Text that is no command *)

\* the words the command processor knows
CommandWords == {LOGIN, HELP, MSG, SEND, GROUP}

\* C19: a body whose first word is none of login, help, msg, send and group
\* is answered by exactly one "Unknown command" reply and changes no mailbox
\* and no group; an empty body, or one of white space only, is answered by
\* nothing and changes no store.
C19_UnknownWordGetsReply ==
    [][(Reads /\ ForBBS(packet') /\ ~IsAcknowledgement(packet'))
       => LET words == WordsOf(packet')
              replies == RepliesTo(packet', out')
          IN  /\ words = <<>>
                 => /\ replies = <<>>
                    /\ UNCHANGED <<mailboxes, chat_groups>>
                    /\ out' = <<>> => UNCHANGED <<next_seq, pending_acks>>
              /\ (words # <<>> /\ Lower(words[1]) \notin CommandWords)
                 => /\ OnlyReply(replies, Sender(packet'), UnknownCommand)
                    /\ UNCHANGED <<mailboxes, chat_groups>>]_vars

-----------------------------------------------------------------------------
(* Letter case of commands *)

\* the words with the command word in lower case and, for `group`, the
\* sub-command and the group name in lower case too
FoldWords(words) ==
    [i \in 1..Len(words) |->
        IF i = 1 \/ (Lower(words[1]) = GROUP /\ i \in {2, 3})
        THEN Lower(words[i])
        ELSE words[i]]

\* the line of the station src with the tag and the words folded
Folded(src, tag, words) ==
    ToBBS(src, IF tag # <<>>
               THEN Tagged(Join(FoldWords(words)), tag)
               ELSE Join(FoldWords(words)))

\* the line carries a command with a word that folding changes
IsCaseVariant(line) ==
    /\ ForBBS(line)
    /\ ~IsAcknowledgement(line)
    /\ \E words \in {WordsOf(line)} : words # <<>> /\ FoldWords(words) # words

\* C20: command words, sub-commands of `group` and group names are read
\* without regard to letter case: a command with one of these words written
\* in another case leaves the same mailboxes and the same groups and is
\* answered by the same replies as the command written in lower case, and
\* every group is kept under its name in lower case.
C20_CaseIsIgnored ==
    [][(Reads /\ IsCaseVariant(packet'))
       => /\ \E order \in Orders(chat_groups) :
             \E f \in {ParsePacket(packet')} :
             \E words \in {WordsOf(packet')} :
             \E st \in {HandlePacket(Stores, Callsign,
                                     Folded(f.src, f.seq_num, words), order)} :
                /\ mailboxes' = st.mailboxes
                /\ chat_groups' = st.chat_groups
                /\ out' = st.out
          /\ \A g \in DOMAIN chat_groups' : g = Lower(g)]_vars

\* B has joined, under the name "G", the group A made under the name "G"
C20_Witness ==
    /\ running
    /\ IsGroupCommand(packet, JOIN, 3)
    /\ IsCaseVariant(packet)
    /\ WordsOf(packet)[3] = Upper(G)
    /\ DOMAIN chat_groups = {G}
    /\ chat_groups[G] = {A, B}
    /\ OnlyReply(out, B, JoinedText(G))
    /\ \E k \in DOMAIN pending_acks :
          k[1] = A /\ pending_acks[k] = CreatedText(G)

-----------------------------------------------------------------------------
(* Station identifiers in the stores *)

\* C21: station identifiers are held in upper case in all four stores: every
\* key of the mailboxes, every member of a group, every key of the sequence
\* counters and every destination of a key of the pending acknowledgements
\* is a callsign in upper case, so stations whose callsigns differ in letter
\* case only share one mailbox, one membership, one counter and one set of
\* pending entries.
C21_CallsignsAreUpper ==
    /\ \A s \in DOMAIN mailboxes : s = Upper(s)
    /\ \A g \in DOMAIN chat_groups : \A m \in chat_groups[g] : m = Upper(m)
    /\ \A s \in DOMAIN next_seq : s = Upper(s)
    /\ \A k \in DOMAIN pending_acks : k[1] = Upper(k[1])

-----------------------------------------------------------------------------
(* Pending acknowledgements *)

\* C23: a key (D, T) leaves the pending acknowledgements only in a step that
\* handles a line `ack<T>` or `rej<T>` from D addressed to the BBS: no
\* command, no login, no group operation, no acknowledgement from another
\* station or of another tag and no other step takes it out, so a message
\* that is not acknowledged stays pending.
C23_OnlyItsAckResolves ==
    [][\A k \in DOMAIN pending_acks :
          k \notin DOMAIN pending_acks'
             => /\ Reads
                /\ ForBBS(packet')
                /\ IsAcknowledgement(packet')
                /\ Sender(packet') = k[1]
                /\ AckDigits(packet') = k[2]]_vars

\* A has acknowledged the first of two messages, and the second is pending
C23_Witness ==
    /\ running
    /\ ForBBS(packet)
    /\ IsAcknowledgement(packet)
    /\ Sender(packet) = A
    /\ AckDigits(packet) = <<"0","1">>
    /\ <<A, <<"0","1">>>> \notin DOMAIN pending_acks
    /\ <<A, <<"0","2">>>> \in DOMAIN pending_acks

\* the key under which the i-th message of s is pending
KeyOf(s, i) == PendingKey(s[i].to, s[i].tag)

\* a message of s that requests an acknowledgement takes the key of an entry
\* that is pending before s is sent, or that an earlier message of s has made
Overwrites(pending, s) ==
    \E j \in 1..Len(s) :
       /\ s[j].tag # <<>>
       /\ \/ KeyOf(s, j) \in DOMAIN pending
          \/ \E i \in 1..(j - 1) : s[i].tag # <<>> /\ KeyOf(s, i) = KeyOf(s, j)

\* C24: every sequence counter is in 1..99 and every key of the pending
\* acknowledgements has a tag of two digits in 01..99, never 00; and a send
\* to D that requests an acknowledgement overwrites an entry (D, T) that is
\* still pending only when the counter of D has wrapped, that is after 99
\* more such sends to D: while fewer than 99 sequence numbers have been
\* handed out in all, no pending entry is overwritten.
C24_OverwriteOnlyAfterWrap ==
    [][/\ \A s \in DOMAIN next_seq' : next_seq'[s] \in 1..SeqModulus
       /\ \A k \in DOMAIN pending_acks' :
             /\ Len(k[2]) = 2
             /\ IsDigit(k[2][1]) /\ IsDigit(k[2][2])
             /\ k[2] # <<"0","0">>
       /\ (Reads /\ Handed(next_seq', DOMAIN next_seq') < SeqModulus)
          => ~Overwrites(pending_acks, out')]_vars

\* C26: the reply `ack<tag>` of the BBS to a tagged line does not itself
\* request an acknowledgement: it is sent without a "{NN" behind it, does not
\* move the sequence counter of the sender and makes no pending entry, so
\* after a tagged command the counters and the pending entries are those the
\* command alone has made.
C26_AckReplyIsUntagged ==
    [][(/\ Reads
        /\ ForBBS(packet')
        /\ TagOf(packet') # <<>>
        /\ ~IsAckOrRej(Lower(BodyOf(packet'))))
       => /\ out' # <<>>
          /\ out'[Len(out')].body = ACK \o TagOf(packet')
          /\ out'[Len(out')].tag = <<>>
          /\ \E order \in Orders(chat_groups) :
             \E st \in {ProcessCommand(Stores, Sender(packet'), BodyOf(packet'),
                                       order)} :
                /\ next_seq' = st.next_seq
                /\ pending_acks' = st.pending_acks]_vars

-----------------------------------------------------------------------------
(* What a command leaves alone *)

\* the dictionaries d and e have the same keys and values, the key k aside
SameExcept(d, e, k) ==
    \A x \in (DOMAIN d \cup DOMAIN e) \ {k} :
       x \in DOMAIN d /\ x \in DOMAIN e /\ d[x] = e[x]

\* C28: a `group` command changes no mailbox; login, msg, send and help
\* change no group; a msg or send to R changes no mailbox but that of R and a
\* login from S no mailbox but that of S; and a group command on G changes no
\* group but G.
C28_StoresAreSeparate ==
    [][Reads =>
         /\ IsCommand(packet', GROUP)
            => /\ mailboxes' = mailboxes
               /\ IsCompleteGroupCommand(packet')
                  => SameExcept(chat_groups, chat_groups', GroupOf(packet'))
               /\ ~IsCompleteGroupCommand(packet') => chat_groups' = chat_groups
         /\ (\/ IsCommand(packet', LOGIN) \/ IsCommand(packet', HELP)
             \/ IsCommand(packet', MSG) \/ IsCommand(packet', SEND))
            => chat_groups' = chat_groups
         /\ ((IsCommand(packet', MSG) \/ IsCommand(packet', SEND))
               /\ Len(WordsOf(packet')) >= 3)
            => SameExcept(mailboxes, mailboxes', Upper(WordsOf(packet')[2]))
         /\ IsCommand(packet', LOGIN)
            => SameExcept(mailboxes, mailboxes', Sender(packet'))
         /\ IsCommand(packet', HELP) => mailboxes' = mailboxes]_vars

\* A has logged in and received a message while a message waits for B
C28_Witness ==
    /\ running
    /\ IsCommand(packet, LOGIN)
    /\ Sender(packet) = A
    /\ out # <<>> /\ IsDelivery(out[1])
    /\ B \in DOMAIN mailboxes /\ mailboxes[B] # <<>>
    /\ A \in DOMAIN mailboxes /\ mailboxes[A] = <<>>

-----------------------------------------------------------------------------
(* Entries that leave a mailbox *)

\* the sequence a is the beginning of the sequence b
IsPrefix(a, b) == Len(a) <= Len(b) /\ SubSeq(b, 1, Len(a)) = a

\* the step takes an entry out of the mailbox of s
Drops(s) ==
    /\ s \in DOMAIN mailboxes
    /\ s \notin DOMAIN mailboxes' \/ ~IsPrefix(mailboxes[s], mailboxes'[s])

\* C27: an entry leaves a mailbox only in a login step of the owner of the
\* mailbox that also sends the delivery message of the entry and records its
\* pending acknowledgement; no step drops an entry that it has not sent and
\* recorded.
C27_NoEntryIsLostUnsent ==
    [][\A s \in DOMAIN mailboxes :
          Drops(s)
             => /\ IsCommand(packet', LOGIN)
                /\ Sender(packet') = s
                /\ LET deliveries == SelectSeq(out', IsDelivery)
                   IN  /\ Bodies(deliveries) = Expected(mailboxes[s])
                       /\ \A i \in 1..Len(deliveries) :
                             /\ deliveries[i].addressee = Ljust9(s)
                             /\ deliveries[i].tag # <<>>
                             /\ <<s, deliveries[i].tag>> \in DOMAIN pending_acks'
                             /\ pending_acks'[<<s, deliveries[i].tag>>]
                                   = deliveries[i].body]_vars

-----------------------------------------------------------------------------
(* Deposits and deliveries over a history *)

\* C22: each deposit is delivered exactly once: for every station R, the
\* delivery messages written to R over all its logins are, in order, the
\* deposits the lines read have asked for R up to its last login, and the
\* deposits asked for since are the entries of its mailbox; none is delivered
\* twice, left out, out of order or written to another station.
C22_DeliveredExactlyOnce ==
    /\ \A R \in DOMAIN deposited \cup DOMAIN delivered \cup DOMAIN mailboxes :
          Get(delivered, R, <<>>) \o Expected(Get(mailboxes, R, <<>>))
             = Expected(Get(deposited, R, <<>>))
    /\ (running /\ IsCommand(packet, LOGIN))
       => /\ Get(mailboxes, Sender(packet), <<>>) = <<>>
          /\ Get(delivered, Sender(packet), <<>>)
                = Expected(Get(deposited, Sender(packet), <<>>))

\* B has received a first deposit at one login and a second one at the next
C22_Witness ==
    /\ running
    /\ IsCommand(packet, LOGIN)
    /\ Sender(packet) = B
    /\ Len(SelectSeq(out, IsDelivery)) = 1
    /\ Len(Get(delivered, B, <<>>)) = 2
    /\ delivered[B][1] # delivered[B][2]
    /\ delivered[B] = Expected(deposited[B])

-----------------------------------------------------------------------------
(* The beacon thread *)

\* C25: with the beacon thread running beside the receive thread, only the
\* receive path reads and changes the mailboxes, the groups, the sequence
\* counters and the pending acknowledgements: an object packet written at any
\* point, also between two deliveries of a login or two copies of a group
\* message, changes none of the four stores, and when the handler of a line
\* has finished, the stores and what was sent are those of the same line
\* handled with no object packet in between.
C25_BeaconLeavesStores ==
    [][/\ objects' # objects
          => UNCHANGED <<mailboxes, chat_groups, next_seq, pending_acks,
                         handling, out>>
       /\ (handling # <<>> /\ handling' = <<>>)
          => \E st \in {HandlePacket(handling.from, Callsign, packet,
                                     handling.order)} :
                /\ mailboxes' = st.mailboxes
                /\ chat_groups' = st.chat_groups
                /\ next_seq' = st.next_seq
                /\ pending_acks' = st.pending_acks
                /\ out' = st.out]_vars

\* an object packet has been written since the login began, the first of the
\* two deliveries is sent and the second is still to be sent
C25_Witness ==
    /\ running
    /\ handling # <<>>
    /\ objects > handling.objects
    /\ IsCommand(packet, LOGIN)
    /\ Len(out) = 1 /\ IsDelivery(out[1])
    /\ Head(handling.calls).op = "send"
    /\ Len(handling.from.mailboxes[Sender(packet)]) = 2
    /\ Len(mailboxes[Sender(packet)]) = 2

=============================================================================
